---------------------------- MODULE Spec2Model ----------------------------
(***************************************************************************)
(* A model of the geo-explorer application: the extraction protocol        *)
(* (services/geminiService.ts: PLACE_TAG_REGEX, parseResponse), the        *)
(* application coordinator (App.tsx) and the camera logic of the map       *)
(* component (components/Map.tsx: MapUpdater, MapEventHandler,             *)
(* FitBoundsControl).                                                      *)
(*                                                                         *)
(* Numbers.  A JavaScript number is a record: a finite number carries its  *)
(* value in micro-degrees (1e-6 degree), so 0.0001 degree is 100 and 1e-6  *)
(* degree is 1; NaN and Infinity are values of their own.                  *)
(*                                                                         *)
(* Text.  A string is a sequence of one-character strings.  The character  *)
(* "D" stands for the five characters DATA: of the sentinel opener, and    *)
(* "I" for the word Infinity; every other character stands for itself.     *)
(***************************************************************************)
EXTENDS Integers, Sequences, FiniteSets, TLC

(***************************************************************************)
(* JavaScript numbers                                                      *)
(***************************************************************************)
Num(n) ==
  [k |-> "num", v |-> n]

NaN ==
  [k |-> "NaN", v |-> 0]

Infinity ==
  [k |-> "Infinity", v |-> 0]

isNaN(x) ==
  x.k = "NaN"

isFinite(x) ==
  x.k = "num"

Abs(n) ==
  IF n < 0 THEN -n ELSE n

null ==
  [k |-> "null"]

Coord(la, ln) ==
  [lat |-> la, lng |-> ln]

Pt(a, b) ==
  Coord(Num(a), Num(b))

(***************************************************************************)
(* Coordinate validator (Map.tsx)                                          *)
(***************************************************************************)
isValidCoord(lat, lng) ==
  /\ ~isNaN(lat)
  /\ ~isNaN(lng)
  /\ isFinite(lat)
  /\ isFinite(lng)

(***************************************************************************)
(* Extraction protocol (geminiService.ts)                                  *)
(***************************************************************************)
MinOf(S) ==
  CHOOSE m \in S : \A n \in S : m <= n

\* least index j >= i with t[j] = c, or 0 when there is none
FirstIdx(t, i, c) ==
  LET S == {j \in i..Len(t) : t[j] = c}
  IN IF S = {} THEN 0 ELSE MinOf(S)

\* the literal {{DATA: at index i
OpenerAt(t, i) ==
  /\ i >= 1
  /\ i + 2 <= Len(t)
  /\ t[i] = "{"
  /\ t[i + 1] = "{"
  /\ t[i + 2] = "D"

NoMatch ==
  [start |-> 0]

\* PLACE_TAG_REGEX anchored at index i:
\*   {{DATA: ([^|]*?) | ([^|]*?) | ([^|]*?) | ([^}]*?) }}
\* Fields 1-3 hold no pipe, so each ends at the next pipe; field 4 holds no
\* closing brace, so it ends at the next "}", which must start "}}".
MatchAt(t, i) ==
  IF ~OpenerAt(t, i) THEN NoMatch
  ELSE LET p1 == FirstIdx(t, i + 3, "|")
           p2 == IF p1 = 0 THEN 0 ELSE FirstIdx(t, p1 + 1, "|")
           p3 == IF p2 = 0 THEN 0 ELSE FirstIdx(t, p2 + 1, "|")
           b  == IF p3 = 0 THEN 0 ELSE FirstIdx(t, p3 + 1, "}")
       IN IF b = 0 \/ b + 1 > Len(t) \/ t[b + 1] # "}" THEN NoMatch
          ELSE [start   |-> i,
                end     |-> b + 1,
                name    |-> SubSeq(t, i + 3, p1 - 1),
                latStr  |-> SubSeq(t, p1 + 1, p2 - 1),
                lngStr  |-> SubSeq(t, p2 + 1, p3 - 1),
                address |-> SubSeq(t, p3 + 1, b - 1)]

\* RegExp.prototype.exec of the global regex: the leftmost match starting at
\* or after lastIndex (0-based), or NoMatch.
Exec(t, lastIdx) ==
  LET S == {i \in (lastIdx + 1)..Len(t) : MatchAt(t, i).start # 0}
  IN IF S = {} THEN NoMatch ELSE MatchAt(t, MinOf(S))

RECURSIVE ExecLoop(_, _)
\* the while ((match = PLACE_TAG_REGEX.exec(text)) !== null) loop: every
\* match in order; each exec leaves lastIndex at the end of its match
ExecLoop(t, lastIdx) ==
  LET m == Exec(t, lastIdx)
  IN IF m.start = 0 THEN <<>>
     ELSE <<m>> \o ExecLoop(t, m.end)

IsSpace(c) ==
  c = " "

RECURSIVE TrimStart(_)
TrimStart(s) ==
  IF Len(s) > 0 /\ IsSpace(s[1]) THEN TrimStart(Tail(s)) ELSE s

RECURSIVE TrimEnd(_)
TrimEnd(s) ==
  IF Len(s) > 0 /\ IsSpace(s[Len(s)])
  THEN TrimEnd(SubSeq(s, 1, Len(s) - 1))
  ELSE s

\* String.prototype.trim
trim(s) ==
  TrimEnd(TrimStart(s))

ReplaceCommaBroken(s) ==
  s

\* s.replace(',', '.') with a string pattern: the first comma only
ReplaceComma(s) ==
  LET j == FirstIdx(s, 1, ",")
  IN IF j = 0 THEN s ELSE [s EXCEPT ![j] = "."]

Digits ==
  {"0", "1", "2", "3", "4", "5", "6", "7", "8", "9"}

DigitVal(c) ==
  CASE c = "0" -> 0 [] c = "1" -> 1 [] c = "2" -> 2 [] c = "3" -> 3
    [] c = "4" -> 4 [] c = "5" -> 5 [] c = "6" -> 6 [] c = "7" -> 7
    [] c = "8" -> 8 [] c = "9" -> 9

RECURSIVE DigitPrefix(_)
DigitPrefix(s) ==
  IF Len(s) > 0 /\ s[1] \in Digits
  THEN <<s[1]>> \o DigitPrefix(Tail(s))
  ELSE <<>>

RECURSIVE IntVal(_)
IntVal(ds) ==
  IF Len(ds) = 0 THEN 0
  ELSE 10 * IntVal(SubSeq(ds, 1, Len(ds) - 1)) + DigitVal(ds[Len(ds)])

\* digits kept after the decimal point: one micro-degree
FracDigits ==
  6

\* the fraction digits as micro-degrees: the first FracDigits digits,
\* padded with zeros on the right
FracMicro(ds) ==
  LET padded == [j \in 1..FracDigits |->
                   IF j <= Len(ds) THEN ds[j] ELSE "0"]
  IN IntVal(padded)

\* parseFloat: optional leading white space and sign, then the longest
\* prefix that is a decimal literal (digits, optional point, digits) or the
\* word Infinity; NaN when there is none; trailing characters are ignored
parseFloat(s) ==
  LET t    == TrimStart(s)
      neg  == Len(t) > 0 /\ t[1] = "-"
      body == IF neg THEN Tail(t) ELSE t
      ip   == DigitPrefix(body)
      rest == SubSeq(body, Len(ip) + 1, Len(body))
      fp   == IF Len(rest) > 0 /\ rest[1] = "."
              THEN DigitPrefix(Tail(rest))
              ELSE <<>>
      mag  == IntVal(ip) * 1000000 + FracMicro(fp)
  IN IF Len(body) > 0 /\ body[1] = "I" THEN Infinity
     ELSE IF Len(ip) = 0 /\ Len(fp) = 0 THEN NaN
     ELSE Num(IF neg THEN -mag ELSE mag)

isValidCoordinateBroken(x) ==
  ~isNaN(x)

\* const isValidCoordinate = (num) => typeof num === 'number' && !isNaN(num) && isFinite(num)
isValidCoordinate(x) ==
  ~isNaN(x) /\ isFinite(x)

\* 0.0001 degree, in micro-degrees
OriginEps ==
  100

AcceptsBroken(lat, lng) ==
  /\ isValidCoordinate(lat)
  /\ isValidCoordinate(lng)
  /\ (Abs(lat.v) > OriginEps /\ Abs(lng.v) > OriginEps)

\* the if of parseResponse: both valid, and not both within 0.0001 of zero
Accepts(lat, lng) ==
  /\ isValidCoordinate(lat)
  /\ isValidCoordinate(lng)
  /\ (Abs(lat.v) > OriginEps \/ Abs(lng.v) > OriginEps)

ParseLat(m) ==
  parseFloat(ReplaceComma(trim(m.latStr)))

ParseLng(m) ==
  parseFloat(ReplaceComma(trim(m.lngStr)))

\* the Place pushed for an accepted match; rnd stands for Math.random, k is
\* the number of the push within the call
MakePlace(m, rnd, k) ==
  [id          |-> <<rnd, k>>,
   name        |-> trim(m.name),
   coordinates |-> Coord(ParseLat(m), ParseLng(m)),
   address     |-> trim(m.address),
   description |-> <<"Located at ">> \o trim(m.address)]

RECURSIVE PushPlacesBroken(_, _, _)
PushPlacesBroken(ms, rnd, k) ==
  IF Len(ms) = 0 THEN <<>>
  ELSE IF Accepts(ParseLat(Head(ms)), ParseLng(Head(ms)))
       THEN PushPlacesBroken(Tail(ms), rnd, k + 1) \o <<MakePlace(Head(ms), rnd, k)>>
       ELSE PushPlacesBroken(Tail(ms), rnd, k)

RECURSIVE PushPlaces(_, _, _)
PushPlaces(ms, rnd, k) ==
  IF Len(ms) = 0 THEN <<>>
  ELSE IF Accepts(ParseLat(Head(ms)), ParseLng(Head(ms)))
       THEN <<MakePlace(Head(ms), rnd, k)>> \o PushPlaces(Tail(ms), rnd, k + 1)
       ELSE PushPlaces(Tail(ms), rnd, k)

RECURSIVE RemoveSpans(_, _, _)
\* the text from index i on, without the spans of the matches ms
RemoveSpans(t, ms, i) ==
  IF Len(ms) = 0 THEN SubSeq(t, i, Len(t))
  ELSE SubSeq(t, i, Head(ms).start - 1) \o RemoveSpans(t, Tail(ms), Head(ms).end + 1)

ReplaceAllBroken(t) ==
  LET m == Exec(t, 0)
  IN IF m.start = 0 THEN t
     ELSE SubSeq(t, 1, m.start - 1) \o SubSeq(t, m.end + 1, Len(t))

\* cleanText.replace(PLACE_TAG_REGEX, ''): a global replace starts at index 0
\* and deletes every match of one left-to-right pass
ReplaceAll(t) ==
  RemoveSpans(t, ExecLoop(t, 0), 1)

\* the places ps without their generated ids
SansId(ps) ==
  [i \in 1..Len(ps) |->
     [name |-> ps[i].name, coordinates |-> ps[i].coordinates,
      address |-> ps[i].address, description |-> ps[i].description]]

lastIndexAfterBroken(t, lastIdx) ==
  LET ms == ExecLoop(t, lastIdx)
  IN IF Len(ms) = 0 THEN lastIdx ELSE ms[Len(ms)].end

RECURSIVE LoopEnd(_, _)
\* lastIndex after the exec loop run from lastIdx: each match leaves it at
\* the end of the match, the exec that finds none resets it to 0
LoopEnd(t, lastIdx) ==
  LET m == Exec(t, lastIdx)
  IN IF m.start = 0 THEN 0 ELSE LoopEnd(t, m.end)

\* PLACE_TAG_REGEX.lastIndex when parseResponse returns: the loop has run
\* from lastIdx, then the global replace has set lastIndex to 0 and run its
\* own pass
lastIndexAfter(t, lastIdx) ==
  LoopEnd(t, 0)

\* parseResponse(text), called with the regex's lastIndex at lastIdx
parseResponse(text, lastIdx, rnd) ==
  [cleanText |-> ReplaceAll(text),
   places    |-> PushPlaces(ExecLoop(text, lastIdx), rnd, 1)]


(***************************************************************************)
(* State                                                                   *)
(***************************************************************************)
VARIABLES
  appState,            \* App.tsx: IDLE | LOADING | RESULTS | ERROR
  places,              \* App.tsx: the Places of the last search
  selectedPlaceId,     \* App.tsx
  mapCenter,           \* App.tsx: the requested center (prop center)
  mapZoom,             \* App.tsx: the requested zoom (prop zoom)
  gpsLocation,         \* App.tsx
  manualLocation,      \* App.tsx
  destinationLocation, \* App.tsx
  isNavigating,        \* App.tsx
  isFollowingUser,     \* App.tsx
  isRoutePlannerOpen,  \* App.tsx
  routeData,           \* App.tsx: null or the route's coordinates
  isLocating,          \* App.tsx
  locateWatches,       \* watches started by handleManualLocate, never cleared
  aiResponseText,      \* App.tsx: the message of the toast, or null
  camCenter,           \* the map's own center (map.getCenter())
  camZoom,             \* the map's own zoom (map.getZoom())
  lastAppliedCenter,   \* MapUpdater: useRef
  lastAppliedZoom,     \* MapUpdater: useRef
  crashed,             \* an effect threw: React unmounted the tree
  instr,               \* the camera instruction of the last update cycle
  lastOp,              \* the last handler that ran
  before,              \* what that handler found (mode flags, manual override,
                       \* the map's center) and the position it was handed
  events,              \* handlers run so far
  rawText,             \* parseResponse: the text of the call
  parseResult,         \* parseResponse: what the call returned
  lastIndex,           \* PLACE_TAG_REGEX.lastIndex
  planner,             \* RoutePlanner.tsx: the state of the mounted planner
  inflight,            \* suggestion requests sent and not yet answered
  requests,            \* the number of requests sent; per field, the last
                       \* request sent and the request whose answer is shown
  journeys             \* route requests: how many were sent, and those in
                       \* flight (live: the planner that sent it is mounted)

appVars ==
  <<appState, places, selectedPlaceId, mapCenter, mapZoom, gpsLocation,
    manualLocation, destinationLocation, isNavigating, isFollowingUser,
    isRoutePlannerOpen, routeData, isLocating, locateWatches, aiResponseText>>

mapVars ==
  <<camCenter, camZoom, lastAppliedCenter, lastAppliedZoom>>

parseVars ==
  <<rawText, parseResult, lastIndex>>

plannerVars ==
  <<planner, inflight, requests, journeys>>

vars ==
  <<appVars, mapVars, crashed, instr, lastOp, before, events, parseVars,
    plannerVars>>

(***************************************************************************)
(* Program constants                                                       *)
(***************************************************************************)
DEFAULT_CENTER ==
  Pt(0, 0)

DEFAULT_ZOOM ==
  2

\* setMapZoom(16): locate, place select, trip start
LocateZoom ==
  16

\* setMapZoom(14): the first place of a search
SearchZoom ==
  14

\* dist > 0.0001 in MapUpdater's follow branch, in micro-degrees
FollowThreshold ==
  100

\* > 0.000001 in MapUpdater's centerChanged, in micro-degrees
CenterEps ==
  1

\* fitBounds of FitBoundsControl: maxZoom
FitMaxZoom ==
  15

(***************************************************************************)
(* Inputs                                                                  *)
(***************************************************************************)
\* handlers run in one behaviour
MaxEvents ==
  5

\* geolocation watches the locate control may leave running
MaxWatches ==
  1

NaNPt ==
  Coord(NaN, Num(0))

InfPt ==
  Coord(Infinity, Num(0))

\* positions a geolocation callback delivers
GpsInputs ==
  {Pt(0, 0), Pt(80, 80), NaNPt, InfPt}

\* where the user pans the map to, and the zoom level the user picks
PanInputs ==
  {Pt(5000, 5000)}

\* (a level other than 0: zoomend reports the map's level in the task that
\* changes it, so a reported level of 0 is the map's level when it is read)
UserZooms ==
  {10}

\* where the user clicks the map
ClickInputs ==
  {Pt(400, 200)}

\* the zoom a fit to a bounding box ends at (the library computes it from
\* the box and the size of the map)
FitZooms ==
  {12}

\* route geometries the routing service returns (after the [lat, lng] flip)
RouteInputs ==
  {<<Pt(0, 0), Pt(400, 200)>>, <<NaNPt>>, <<>>}

\* the planner's start and destination coordinates of a route request
RouteStarts ==
  {Pt(0, 0), NaNPt}

RouteEnds ==
  {Pt(400, 200)}

\* values of Math.random
RandomInputs ==
  {1}

Chars(n) ==
  CASE n = 0 -> <<"0">>
    [] n = 300 -> <<"0", ".", "0", "0", "0", "3">>
    [] n = 301 -> <<"0", ".", "0", "0", "0", "3", "0", "1">>

TagText(name, la, ln, addr) ==
  <<"{", "{", "D">> \o name \o <<"|">> \o la \o <<"|">> \o ln \o <<"|">> \o addr \o <<"}", "}">>

\* model responses of a search: two places 1e-6 degree apart and a
\* placeholder tag; no tag
SearchTexts ==
  {<<"a">> \o TagText(<<"A">>, Chars(300), Chars(300), <<"x">>)
     \o TagText(<<"G">>, Chars(0), Chars(0), <<"n">>)
     \o TagText(<<"B">>, Chars(301), Chars(300), <<"y">>),
   <<"a">>}

(***************************************************************************)
(* Derived state                                                           *)
(***************************************************************************)
\* const userLocation = manualLocation || gpsLocation
userLocation ==
  IF manualLocation # null THEN manualLocation ELSE gpsLocation

Found ==
  [following |-> isFollowingUser,
   navigating |-> isNavigating,
   manual |-> manualLocation # null,
   cam |-> camCenter,
   input |-> null]

NoInstr ==
  [type |-> "none"]

(***************************************************************************)
(* The map library, at its interface                                       *)
(***************************************************************************)
Range(s) ==
  {s[i] : i \in 1..Len(s)}

\* new L.LatLng(lat, lng) throws on NaN; L.latLngBounds builds one per point
LatLngThrows(pts) ==
  \E p \in pts : isNaN(p.lat) \/ isNaN(p.lng)

MaxOf(S) ==
  CHOOSE m \in S : \A n \in S : m >= n

\* bounds.getCenter(): the middle of the box around the points
BoundsCenter(pts) ==
  LET lats == {p.lat.v : p \in pts}
      lngs == {p.lng.v : p \in pts}
  IN Pt((MinOf(lats) + MaxOf(lats)) \div 2, (MinOf(lngs) + MaxOf(lngs)) \div 2)

(***************************************************************************)
(* Map.tsx: MapUpdater's effect, a function of the props of the render     *)
(***************************************************************************)
RouteBranchBroken(route, following) ==
  /\ route # null
  /\ Len(route.coordinates) > 0

\* routeData && routeData.coordinates.length > 0 && !isFollowingUser
RouteBranch(route, following) ==
  /\ route # null
  /\ Len(route.coordinates) > 0
  /\ ~following

\* (isNavigating || isFollowingUser) && userLocation && isValidCoord(...)
FollowBranch(navigating, following, user) ==
  /\ navigating \/ following
  /\ user # null
  /\ isValidCoord(user.lat, user.lng)

FarFromBroken(c, u) ==
  \/ Abs(c.lat.v - u.lat.v) > FollowThreshold
  \/ Abs(c.lng.v - u.lng.v) > FollowThreshold

\* dist > 0.0001, dist the planar distance from map.getCenter() to the user
FarFrom(c, u) ==
  (c.lat.v - u.lat.v) * (c.lat.v - u.lat.v)
    + (c.lng.v - u.lng.v) * (c.lng.v - u.lng.v)
  > FollowThreshold * FollowThreshold

\* const targetZoom = zoom || map.getZoom()
targetZoom(zoom) ==
  IF zoom # 0 THEN zoom ELSE camZoom

centerChangedBroken(center) ==
  \/ lastAppliedCenter = null
  \/ Abs(lastAppliedCenter.lat.v - center.lat.v) >= CenterEps
  \/ Abs(lastAppliedCenter.lng.v - center.lng.v) >= CenterEps

centerChanged(center) ==
  \/ lastAppliedCenter = null
  \/ Abs(lastAppliedCenter.lat.v - center.lat.v) > CenterEps
  \/ Abs(lastAppliedCenter.lng.v - center.lng.v) > CenterEps

zoomChanged(zoom) ==
  lastAppliedZoom # Num(targetZoom(zoom))

\* one run of the effect
MapUpdater(center, zoom, user, navigating, route, following) ==
  IF RouteBranch(route, following)
  THEN \* L.latLngBounds, bounds.isValid(), map.fitBounds: not in a try
       IF LatLngThrows(Range(route.coordinates))
       THEN /\ crashed' = TRUE
            /\ instr' = NoInstr
            /\ UNCHANGED mapVars
       ELSE \E z \in FitZooms :
              /\ camCenter' = BoundsCenter(Range(route.coordinates))
              /\ camZoom' = z
              /\ instr' = [type |-> "fitRoute", center |-> camCenter', zoom |-> z]
              /\ UNCHANGED <<crashed, lastAppliedCenter, lastAppliedZoom>>
  ELSE IF FollowBranch(navigating, following, user)
  THEN IF FarFrom(camCenter, user)
       THEN /\ camCenter' = Coord(user.lat, user.lng)
            /\ instr' = [type |-> "follow", center |-> camCenter', zoom |-> camZoom]
            /\ UNCHANGED <<crashed, camZoom, lastAppliedCenter, lastAppliedZoom>>
       ELSE /\ instr' = NoInstr
            /\ UNCHANGED <<crashed, mapVars>>
  ELSE IF ~isValidCoord(center.lat, center.lng)
  THEN /\ instr' = NoInstr
       /\ UNCHANGED <<crashed, mapVars>>
  ELSE IF centerChanged(center) \/ zoomChanged(zoom)
  THEN /\ camCenter' = Coord(center.lat, center.lng)
       /\ camZoom' = targetZoom(zoom)
       /\ lastAppliedCenter' = center
       /\ lastAppliedZoom' = Num(targetZoom(zoom))
       /\ instr' = [type |-> "explicit", center |-> camCenter', zoom |-> camZoom']
       /\ UNCHANGED crashed
  ELSE /\ instr' = NoInstr
       /\ UNCHANGED <<crashed, mapVars>>

\* the position callback's test: typeof number and not NaN
GpsAccepted(pos) ==
  ~isNaN(pos.lat) /\ ~isNaN(pos.lng)

(***************************************************************************)
(* RoutePlanner.tsx: the planner is mounted while isRoutePlannerOpen       *)
(***************************************************************************)
\* the text "Current Location" of the start field
CurrentLocation ==
  <<"C", "L">>

\* the state of a planner mounted with the prop userLocation, after its
\* mount effects (App passes no destinationLocation)
PlannerState(user) ==
  [startQuery       |-> IF user # null THEN CurrentLocation ELSE <<>>,
   destQuery        |-> <<>>,
   startCoords      |-> user,
   destCoords       |-> null,
   startSuggestions |-> <<>>,
   destSuggestions  |-> <<>>,
   isLoading        |-> FALSE,
   debounceTimer    |-> null]

\* sent: requests sent since the mount; current: per field, the last request
\* sent since the last selection; shown: per field, the request whose answer
\* is displayed
NoRequests ==
  [sent |-> 0, current |-> [start |-> 0, dest |-> 0], shown |-> [start |-> 0, dest |-> 0]]

\* the route requests js once their planner is unmounted
Orphaned(js) ==
  [js EXCEPT !.inflight = {[j EXCEPT !.live = FALSE] : j \in @}]

\* the planner across a render of App, p and js being the planner's state
\* and the route requests the handler left: unmounted when closed (its state
\* is lost, answers to its suggestion requests reach no one, its route
\* requests go on), mounted when opened, and while mounted its effect on
\* [userLocation] fills an empty start field
PlannerRenderFrom(p, js, newFix) ==
  IF ~isRoutePlannerOpen'
  THEN /\ planner' = PlannerState(null)
       /\ inflight' = {}
       /\ requests' = NoRequests
       /\ journeys' = Orphaned(js)
  ELSE IF ~isRoutePlannerOpen
  THEN /\ planner' = PlannerState(userLocation')
       /\ inflight' = {}
       /\ requests' = NoRequests
       /\ journeys' = js
  ELSE /\ planner' = IF /\ newFix \/ userLocation' # userLocation
                        /\ userLocation' # null
                        /\ p.startQuery = <<>>
                     THEN [p EXCEPT !.startCoords = userLocation',
                                    !.startQuery = CurrentLocation]
                     ELSE p
       /\ journeys' = js
       /\ UNCHANGED <<inflight, requests>>

PlannerRender(newFix) ==
  PlannerRenderFrom(planner, journeys, newFix)

(***************************************************************************)
(* Initial state: App is mounted, its mount effect has started the first   *)
(* geolocation watch, and MapUpdater's effect has run on the first props   *)
(***************************************************************************)
\* a message of the toast (the text the model answered is kept as "response")
Message(text) ==
  [k |-> "text", v |-> text]

Init ==
  /\ appState = "IDLE"
  /\ places = <<>>
  /\ selectedPlaceId = null
  /\ mapCenter = DEFAULT_CENTER
  /\ mapZoom = DEFAULT_ZOOM
  /\ gpsLocation = null
  /\ manualLocation = null
  /\ destinationLocation = null
  /\ isNavigating = FALSE
  /\ isFollowingUser = FALSE
  /\ isRoutePlannerOpen = FALSE
  /\ routeData = null
  /\ isLocating = TRUE
  /\ locateWatches = 0
  /\ aiResponseText = null
  /\ camCenter = DEFAULT_CENTER
  /\ camZoom = DEFAULT_ZOOM
  /\ lastAppliedCenter = DEFAULT_CENTER
  /\ lastAppliedZoom = Num(DEFAULT_ZOOM)
  /\ crashed = FALSE
  /\ instr = [type |-> "explicit", center |-> DEFAULT_CENTER, zoom |-> DEFAULT_ZOOM]
  /\ lastOp = "mount"
  /\ before = [following |-> FALSE, navigating |-> FALSE, manual |-> FALSE,
               cam |-> DEFAULT_CENTER, input |-> null]
  /\ events = 0
  /\ rawText = <<>>
  /\ parseResult = null
  /\ lastIndex = 0
  /\ planner = PlannerState(null)
  /\ inflight = {}
  /\ requests = NoRequests
  /\ journeys = [sent |-> 0, inflight |-> {}]

\* a handler runs while the tree is mounted
Ready ==
  ~crashed /\ events < MaxEvents

\* what every handler records, and the render that follows it: MapUpdater's
\* effect runs when one of its dependencies [center, zoom, userLocation,
\* isNavigating, map, routeData, isFollowingUser] changed
RanFrom(op, input, depsChanged, p, js) ==
  /\ lastOp' = op
  /\ before' = [Found EXCEPT !.input = input]
  /\ events' = events + 1
  /\ UNCHANGED parseVars
  /\ PlannerRenderFrom(p, js, op \in {"GpsUpdateMount", "GpsUpdateLocate"}
                              /\ GpsAccepted(input) /\ manualLocation = null)
  /\ IF depsChanged
     THEN MapUpdater(mapCenter', mapZoom', userLocation', isNavigating',
                     routeData', isFollowingUser')
     ELSE /\ instr' = NoInstr
          /\ UNCHANGED <<crashed, mapVars>>

Ran(op, input, depsChanged) ==
  RanFrom(op, input, depsChanged, planner, journeys)

(***************************************************************************)
(* Geolocation (App.tsx: startLocationWatch)                               *)
(***************************************************************************)
\* the watch of the mount effect delivers a position; its onSuccess is empty
GpsUpdateMount(pos) ==
  /\ Ready
  /\ gpsLocation' = IF GpsAccepted(pos) THEN pos ELSE gpsLocation
  /\ isLocating' = FALSE
  /\ UNCHANGED <<appState, places, selectedPlaceId, mapCenter, mapZoom,
                 manualLocation, destinationLocation, isNavigating,
                 isFollowingUser, isRoutePlannerOpen, routeData, locateWatches,
                 aiResponseText>>
  /\ Ran("GpsUpdateMount", pos, GpsAccepted(pos) /\ manualLocation = null)

\* a watch started by handleManualLocate delivers a position; its onSuccess
\* centers on it, zooms to 16, turns following on and clears the selection
GpsUpdateLocate(pos) ==
  /\ Ready
  /\ locateWatches > 0
  /\ isLocating' = FALSE
  /\ IF GpsAccepted(pos)
     THEN /\ gpsLocation' = pos
          /\ mapCenter' = pos
          /\ mapZoom' = LocateZoom
          /\ isFollowingUser' = TRUE
          /\ aiResponseText' = Message("Located you successfully.")
          /\ selectedPlaceId' = null
     ELSE UNCHANGED <<gpsLocation, mapCenter, mapZoom, isFollowingUser,
                      aiResponseText, selectedPlaceId>>
  /\ UNCHANGED <<appState, places, manualLocation, destinationLocation,
                 isNavigating, isRoutePlannerOpen, routeData, locateWatches>>
  /\ Ran("GpsUpdateLocate", pos, GpsAccepted(pos))

\* the error callback of a watch
GpsError ==
  /\ Ready
  /\ isLocating
  /\ isLocating' = FALSE
  /\ \/ UNCHANGED aiResponseText
     \/ /\ locateWatches > 0
        /\ aiResponseText' = Message("Unable to retrieve your location.")
  /\ UNCHANGED <<appState, places, selectedPlaceId, mapCenter, mapZoom,
                 gpsLocation, manualLocation, destinationLocation, isNavigating,
                 isFollowingUser, isRoutePlannerOpen, routeData, locateWatches>>
  /\ Ran("GpsError", null, FALSE)

(***************************************************************************)
(* App.tsx handlers                                                        *)
(***************************************************************************)
handleManualLocateBroken ==
  /\ Ready
  /\ ~isLocating
  /\ manualLocation # null
  /\ isFollowingUser' = TRUE
  /\ UNCHANGED <<appState, places, selectedPlaceId, mapCenter, mapZoom,
                 gpsLocation, manualLocation, destinationLocation, isNavigating,
                 isRoutePlannerOpen, routeData, isLocating, locateWatches,
                 aiResponseText>>
  /\ Ran("handleManualLocate", null, TRUE)

\* the locate control (disabled while isLocating)
handleManualLocate ==
  /\ Ready
  /\ ~isLocating
  /\ (manualLocation = null /\ gpsLocation = null) => locateWatches < MaxWatches
  /\ IF manualLocation # null
     THEN /\ manualLocation' = null
          /\ aiResponseText' = Message("Switched back to GPS location.")
          /\ isFollowingUser' = TRUE
          /\ IF gpsLocation # null
             THEN mapCenter' = gpsLocation /\ mapZoom' = LocateZoom
             ELSE UNCHANGED <<mapCenter, mapZoom>>
          /\ UNCHANGED <<isLocating, locateWatches>>
     ELSE /\ UNCHANGED manualLocation
          /\ isFollowingUser' = ~isFollowingUser
          /\ aiResponseText' = IF isFollowingUser
                               THEN Message("Stopped following your location.")
                               ELSE Message("Following your location.")
          /\ IF ~isFollowingUser /\ gpsLocation # null
             THEN mapCenter' = gpsLocation /\ mapZoom' = LocateZoom
             ELSE UNCHANGED <<mapCenter, mapZoom>>
          /\ IF gpsLocation = null
             THEN isLocating' = TRUE /\ locateWatches' = locateWatches + 1
             ELSE UNCHANGED <<isLocating, locateWatches>>
  /\ UNCHANGED <<appState, places, selectedPlaceId, gpsLocation,
                 destinationLocation, isNavigating, isRoutePlannerOpen, routeData>>
  /\ Ran("handleManualLocate", null, TRUE)

\* handleStartTrip, the only writer of isNavigating
handleStartTrip ==
  /\ Ready
  /\ IF userLocation # null /\ destinationLocation # null
     THEN /\ isNavigating' = TRUE
          /\ isFollowingUser' = TRUE
          /\ aiResponseText' = Message("Navigation started!")
          /\ mapCenter' = userLocation
          /\ mapZoom' = LocateZoom
     ELSE /\ aiResponseText' = Message("Please set both start and destination locations.")
          /\ UNCHANGED <<isNavigating, isFollowingUser, mapCenter, mapZoom>>
  /\ UNCHANGED <<appState, places, selectedPlaceId, gpsLocation, manualLocation,
                 destinationLocation, isRoutePlannerOpen, routeData, isLocating,
                 locateWatches>>
  /\ Ran("handleStartTrip", null, userLocation # null /\ destinationLocation # null)

\* onRouteFound of the route planner
handleRouteFound(route, start, end) ==
  /\ Ready
  /\ isRoutePlannerOpen
  /\ routeData' = [coordinates |-> route]
  /\ manualLocation' = start
  /\ destinationLocation' = end
  /\ aiResponseText' = Message("Route found!")
  /\ UNCHANGED <<appState, places, selectedPlaceId, mapCenter, mapZoom,
                 gpsLocation, isNavigating, isFollowingUser, isRoutePlannerOpen,
                 isLocating, locateWatches>>
  /\ Ran("handleRouteFound", null, TRUE)

\* moveend / zoomend of the map: onMapChange with the map's own view
handleMapChange ==
  /\ Ready
  /\ mapCenter' = camCenter
  /\ mapZoom' = camZoom
  /\ UNCHANGED <<appState, places, selectedPlaceId, gpsLocation, manualLocation,
                 destinationLocation, isNavigating, isFollowingUser,
                 isRoutePlannerOpen, routeData, isLocating, locateWatches>>
  /\ UNCHANGED aiResponseText
  /\ Ran("handleMapChange", null, TRUE)

\* dragstart of the map: onUserInteraction
handleMapDrag ==
  /\ Ready
  /\ isFollowingUser' = FALSE
  /\ UNCHANGED <<appState, places, selectedPlaceId, mapCenter, mapZoom,
                 gpsLocation, manualLocation, destinationLocation, isNavigating,
                 isRoutePlannerOpen, routeData, isLocating, locateWatches>>
  /\ UNCHANGED aiResponseText
  /\ Ran("handleMapDrag", null, isFollowingUser)

\* the search form (its button is disabled while LOADING): up to the await
handleSearchStart ==
  /\ Ready
  /\ appState # "LOADING"
  /\ appState' = "LOADING"
  /\ aiResponseText' = null
  /\ selectedPlaceId' = null
  /\ isFollowingUser' = FALSE
  /\ UNCHANGED <<places, mapCenter, mapZoom, gpsLocation, manualLocation,
                 destinationLocation, isNavigating, isRoutePlannerOpen,
                 routeData, isLocating, locateWatches>>
  /\ Ran("handleSearchStart", null, isFollowingUser)

handleSearchDoneBroken(text, rnd) ==
  /\ Ready
  /\ appState = "LOADING"
  /\ LET response == parseResponse(text, lastIndex, rnd)
         centers  == Len(response.places) > 0
                       /\ ~isNaN(response.places[1].coordinates.lat)
     IN /\ places' = IF Len(response.places) > 0 THEN response.places ELSE places
        /\ IF centers
           THEN mapCenter' = response.places[1].coordinates /\ mapZoom' = SearchZoom
           ELSE UNCHANGED <<mapCenter, mapZoom>>
        /\ aiResponseText' = IF response.cleanText # <<>>
                             THEN Message("response")
                             ELSE Message("Here is what I found.")
        /\ appState' = "RESULTS"
        /\ UNCHANGED <<selectedPlaceId, gpsLocation, manualLocation,
                       destinationLocation, isNavigating, isFollowingUser,
                       isRoutePlannerOpen, routeData, isLocating, locateWatches>>
        /\ Ran("handleSearchDone", text, centers)

\* handleSearch after the await: sendMessageToGemini returned parseResponse
\* of the model's text
handleSearchDone(text, rnd) ==
  /\ Ready
  /\ appState = "LOADING"
  /\ LET response == parseResponse(text, lastIndex, rnd)
         centers  == Len(response.places) > 0
                       /\ ~isNaN(response.places[1].coordinates.lat)
     IN /\ places' = response.places
        /\ IF centers
           THEN mapCenter' = response.places[1].coordinates /\ mapZoom' = SearchZoom
           ELSE UNCHANGED <<mapCenter, mapZoom>>
        /\ aiResponseText' = IF response.cleanText # <<>>
                             THEN Message("response")
                             ELSE Message("Here is what I found.")
        /\ appState' = "RESULTS"
        /\ UNCHANGED <<selectedPlaceId, gpsLocation, manualLocation,
                       destinationLocation, isNavigating, isFollowingUser,
                       isRoutePlannerOpen, routeData, isLocating, locateWatches>>
        /\ Ran("handleSearchDone", text, centers)

handleSearchFailedBroken ==
  /\ Ready
  /\ appState = "LOADING"
  /\ appState' = "ERROR"
  /\ aiResponseText' = Message("I encountered an error. Please try again.")
  /\ places' = <<>>
  /\ UNCHANGED <<selectedPlaceId, mapCenter, mapZoom, gpsLocation,
                 manualLocation, destinationLocation, isNavigating,
                 isFollowingUser, isRoutePlannerOpen, routeData, isLocating,
                 locateWatches>>
  /\ Ran("handleSearchFailed", null, FALSE)

\* handleSearch's catch: sendMessageToGemini threw
handleSearchFailed ==
  /\ Ready
  /\ appState = "LOADING"
  /\ appState' = "ERROR"
  /\ aiResponseText' = Message("I encountered an error. Please try again.")
  /\ UNCHANGED <<places, selectedPlaceId, mapCenter, mapZoom, gpsLocation,
                 manualLocation, destinationLocation, isNavigating,
                 isFollowingUser, isRoutePlannerOpen, routeData, isLocating,
                 locateWatches>>
  /\ Ran("handleSearchFailed", null, FALSE)

\* a click on the marker or the card of place i of the list
handlePlaceSelect(i) ==
  /\ Ready
  /\ i \in 1..Len(places)
  /\ LET placeId == places[i].id
         found   == {j \in 1..Len(places) : places[j].id = placeId}
         place   == places[MinOf(found)]
     IN /\ selectedPlaceId' = placeId
        /\ isFollowingUser' = FALSE
        /\ IF ~isNaN(place.coordinates.lat)
           THEN mapCenter' = place.coordinates /\ mapZoom' = LocateZoom
           ELSE UNCHANGED <<mapCenter, mapZoom>>
  /\ UNCHANGED <<appState, places, gpsLocation, manualLocation,
                 destinationLocation, isNavigating, isRoutePlannerOpen,
                 routeData, isLocating, locateWatches>>
  /\ UNCHANGED aiResponseText
  /\ Ran("handlePlaceSelect", null, TRUE)

\* the toast's dismiss button
dismissMessage ==
  /\ Ready
  /\ aiResponseText # null
  /\ aiResponseText' = null
  /\ UNCHANGED <<appState, places, selectedPlaceId, mapCenter, mapZoom,
                 gpsLocation, manualLocation, destinationLocation, isNavigating,
                 isFollowingUser, isRoutePlannerOpen, routeData, isLocating,
                 locateWatches>>
  /\ Ran("dismissMessage", null, FALSE)

\* a click on the map: onMapClick
handleMapClick(coords) ==
  /\ Ready
  /\ destinationLocation' = coords
  /\ isRoutePlannerOpen' = TRUE
  /\ aiResponseText' = Message("Destination pinned!")
  /\ isFollowingUser' = FALSE
  /\ UNCHANGED <<appState, places, selectedPlaceId, mapCenter, mapZoom,
                 gpsLocation, manualLocation, isNavigating, routeData,
                 isLocating, locateWatches>>
  /\ Ran("handleMapClick", null, isFollowingUser)

\* the route planner's toggle button
toggleRoutePlanner ==
  /\ Ready
  /\ isRoutePlannerOpen' = ~isRoutePlannerOpen
  /\ UNCHANGED <<appState, places, selectedPlaceId, mapCenter, mapZoom,
                 gpsLocation, manualLocation, destinationLocation, isNavigating,
                 isFollowingUser, routeData, isLocating, locateWatches>>
  /\ UNCHANGED aiResponseText
  /\ Ran("toggleRoutePlanner", null, FALSE)

\* onCancel of the route planner
cancelRoutePlanner ==
  /\ Ready
  /\ isRoutePlannerOpen
  /\ isRoutePlannerOpen' = FALSE
  /\ routeData' = null
  /\ destinationLocation' = null
  /\ UNCHANGED <<appState, places, selectedPlaceId, mapCenter, mapZoom,
                 gpsLocation, manualLocation, isNavigating, isFollowingUser,
                 isLocating, locateWatches>>
  /\ UNCHANGED aiResponseText
  /\ Ran("cancelRoutePlanner", null, routeData # null)

(***************************************************************************)
(* Map.tsx: FitBoundsControl (rendered while places is not empty)          *)
(***************************************************************************)
validPlacesBroken(ps) ==
  {ps[i].coordinates : i \in 2..Len(ps)}

\* places.filter(p => p.coordinates && isValidCoord(...)), as the set of
\* their coordinates
validPlaces(ps) ==
  {ps[i].coordinates : i \in {j \in 1..Len(ps) :
      isValidCoord(ps[j].coordinates.lat, ps[j].coordinates.lng)}}

\* the click on the fit-all control; it changes no state of App, so no
\* effect follows
fitBounds ==
  /\ Ready
  /\ Len(places) > 0
  /\ IF validPlaces(places) = {}
     THEN /\ instr' = NoInstr
          /\ UNCHANGED <<camCenter, camZoom>>
     ELSE \E z \in {y \in FitZooms : y <= FitMaxZoom} :
            /\ camCenter' = BoundsCenter(validPlaces(places))
            /\ camZoom' = z
            /\ instr' = [type   |-> "fitBounds",
                         center |-> camCenter',
                         zoom   |-> z,
                         points |-> validPlaces(places)]
  /\ lastOp' = "fitBounds"
  /\ before' = Found
  /\ events' = events + 1
  /\ UNCHANGED <<appVars, lastAppliedCenter, lastAppliedZoom, crashed, parseVars,
                 plannerVars>>

(***************************************************************************)
(* The user moves the map's own view; no handler of the program runs until *)
(* the map reports moveend / zoomend                                       *)
(***************************************************************************)
userPan(c) ==
  /\ Ready
  /\ camCenter # c
  /\ camCenter' = c
  /\ UNCHANGED <<appVars, camZoom, lastAppliedCenter, lastAppliedZoom,
                 crashed, instr, lastOp, before, events, parseVars,
                 plannerVars>>

userZoom(z) ==
  /\ Ready
  /\ camZoom # z
  /\ camZoom' = z
  /\ UNCHANGED <<appVars, camCenter, lastAppliedCenter, lastAppliedZoom,
                 crashed, instr, lastOp, before, events, parseVars,
                 plannerVars>>

(***************************************************************************)
(* The application                                                         *)
(***************************************************************************)
Next ==
  \/ \E pos \in GpsInputs : GpsUpdateMount(pos)
  \/ \E pos \in GpsInputs : GpsUpdateLocate(pos)
  \/ GpsError
  \/ handleManualLocate
  \/ handleStartTrip
  \/ \E route \in RouteInputs, start \in RouteStarts, end \in RouteEnds :
       handleRouteFound(route, start, end)
  \/ handleMapChange
  \/ handleMapDrag
  \/ handleSearchStart
  \/ \E text \in SearchTexts, rnd \in RandomInputs : handleSearchDone(text, rnd)
  \/ handleSearchFailed
  \/ \E i \in 1..2 : handlePlaceSelect(i)
  \/ \E coords \in ClickInputs : handleMapClick(coords)
  \/ dismissMessage
  \/ toggleRoutePlanner
  \/ cancelRoutePlanner
  \/ fitBounds
  \/ \E c \in PanInputs : userPan(c)
  \/ \E z \in UserZooms : userZoom(z)

Spec ==
  Init /\ [][Next]_vars

(***************************************************************************)
(* RoutePlanner.tsx: the suggestion fields                                 *)
(***************************************************************************)
\* suggestion requests sent by one mounted planner
MaxRequests ==
  2

\* route requests sent in a behaviour
MaxJourneys ==
  2

Fields ==
  {"start", "dest"}

QueryOf(type) ==
  IF type = "start" THEN "startQuery" ELSE "destQuery"

CoordsOf(type) ==
  IF type = "start" THEN "startCoords" ELSE "destCoords"

SuggestionsOf(type) ==
  IF type = "start" THEN "startSuggestions" ELSE "destSuggestions"

\* what the user types into a field: nothing (the field is emptied), three
\* characters
QueryInputs ==
  {<<>>, <<"a", "b", "c">>}

\* answers of the geocoding service: a place at (0.0004, 0.0002) and an
\* entry whose lat is not a number; nothing
SuggestionInputs ==
  {<<[display_name |-> <<"P">>,
      lat |-> <<"0", ".", "0", "0", "0", "4">>,
      lon |-> <<"0", ".", "0", "0", "0", "2">>],
     [display_name |-> <<"Q">>,
      lat |-> <<"x">>,
      lon |-> <<"1">>]>>,
   <<>>}

\* onChange of a field: its text becomes val
handleInput(val, type) ==
  /\ ~crashed
  /\ isRoutePlannerOpen
  /\ val # planner[QueryOf(type)]
  /\ planner' = [planner EXCEPT ![QueryOf(type)] = val,
                                ![CoordsOf(type)] = null,
                                !.debounceTimer = [val |-> val, type |-> type]]
  /\ UNCHANGED <<appVars, mapVars, crashed, instr, lastOp, before, events,
                 parseVars, inflight, requests, journeys>>

\* the debounce timer fires: fetchSuggestions up to its await
fetchSuggestions ==
  /\ ~crashed
  /\ isRoutePlannerOpen
  /\ planner.debounceTimer # null
  /\ LET query == planner.debounceTimer.val
         type  == planner.debounceTimer.type
     IN IF Len(query) < 3
        THEN /\ planner' = [planner EXCEPT ![SuggestionsOf(type)] = <<>>,
                                           !.debounceTimer = null]
             /\ requests' = [requests EXCEPT !.shown[type] = 0]
             /\ UNCHANGED inflight
        ELSE /\ requests.sent < MaxRequests
             /\ planner' = [planner EXCEPT !.debounceTimer = null]
             /\ inflight' = inflight \cup
                  {[n |-> requests.sent + 1, type |-> type, query |-> query]}
             /\ requests' = [requests EXCEPT !.sent = @ + 1,
                                             !.current[type] = requests.sent + 1]
  /\ UNCHANGED <<appVars, mapVars, crashed, instr, lastOp, before, events,
                 parseVars, journeys>>

\* fetchSuggestions after its await: the answer to request r arrives
suggestionsArrive(r, data) ==
  /\ ~crashed
  /\ r \in inflight
  /\ inflight' = inflight \ {r}
  /\ planner' = [planner EXCEPT ![SuggestionsOf(r.type)] = data]
  /\ requests' = [requests EXCEPT !.shown[r.type] = r.n]
  /\ UNCHANGED <<appVars, mapVars, crashed, instr, lastOp, before, events,
                 parseVars, journeys>>

\* fetchSuggestions' catch: request r failed
suggestionsFail(r) ==
  /\ ~crashed
  /\ r \in inflight
  /\ inflight' = inflight \ {r}
  /\ UNCHANGED <<appVars, mapVars, crashed, instr, lastOp, before, events,
                 parseVars, planner, requests, journeys>>

\* a click on suggestion k of a field
handleSelect(type, k) ==
  /\ ~crashed
  /\ isRoutePlannerOpen
  /\ k \in 1..Len(planner[SuggestionsOf(type)])
  /\ LET suggestion == planner[SuggestionsOf(type)][k]
         coords     == Coord(parseFloat(suggestion.lat), parseFloat(suggestion.lon))
     IN planner' = [planner EXCEPT ![QueryOf(type)] = suggestion.display_name,
                                   ![CoordsOf(type)] = coords,
                                   ![SuggestionsOf(type)] = <<>>]
  /\ requests' = [requests EXCEPT !.shown[type] = 0, !.current[type] = 0]
  /\ UNCHANGED <<appVars, mapVars, crashed, instr, lastOp, before, events,
                 parseVars, inflight, journeys>>

\* the Start Journey button (disabled without both coordinates and while
\* isLoading): handleStartJourney up to its await
handleStartJourney ==
  /\ ~crashed
  /\ isRoutePlannerOpen
  /\ planner.startCoords # null
  /\ planner.destCoords # null
  /\ ~planner.isLoading
  /\ journeys.sent < MaxJourneys
  /\ planner' = [planner EXCEPT !.isLoading = TRUE]
  /\ journeys' = [sent     |-> journeys.sent + 1,
                  inflight |-> journeys.inflight \cup
                                 {[n     |-> journeys.sent + 1,
                                   start |-> planner.startCoords,
                                   dest  |-> planner.destCoords,
                                   live  |-> TRUE]}]
  /\ UNCHANGED <<appVars, mapVars, crashed, instr, lastOp, before, events,
                 parseVars, inflight, requests>>

\* the planner's state after a route request of it ended: finally
\* setIsLoading(false), which reaches a mounted planner only
Ended(j) ==
  IF j.live THEN [planner EXCEPT !.isLoading = FALSE] ELSE planner

Pending(j) ==
  [journeys EXCEPT !.inflight = @ \ {j}]

\* handleStartJourney after its awaits, the answer holding a route:
\* onRouteFound(routeData, startCoords, destCoords), that is handleRouteFound
\* of App, then finally
routeArrives(j, route) ==
  /\ Ready
  /\ j \in journeys.inflight
  /\ routeData' = [coordinates |-> route]
  /\ manualLocation' = j.start
  /\ destinationLocation' = j.dest
  /\ aiResponseText' = Message("Route found!")
  /\ UNCHANGED <<appState, places, selectedPlaceId, mapCenter, mapZoom,
                 gpsLocation, isNavigating, isFollowingUser, isRoutePlannerOpen,
                 isLocating, locateWatches>>
  /\ RanFrom("handleRouteFound", null, TRUE, Ended(j), Pending(j))

\* handleStartJourney after its awaits, the answer holding no route or the
\* request failing: finally
routeFails(j) ==
  /\ ~crashed
  /\ j \in journeys.inflight
  /\ planner' = Ended(j)
  /\ journeys' = Pending(j)
  /\ UNCHANGED <<appVars, mapVars, crashed, instr, lastOp, before, events,
                 parseVars, inflight, requests>>

\* the fixes the mount watch delivers while the planner is studied
PlannerFixes ==
  {Pt(80, 80)}

NextPlanner ==
  \/ toggleRoutePlanner
  \/ cancelRoutePlanner
  \/ \E pos \in PlannerFixes : GpsUpdateMount(pos)
  \/ handleStartJourney
  \/ \E j \in journeys.inflight, route \in RouteInputs : routeArrives(j, route)
  \/ \E j \in journeys.inflight : routeFails(j)
  \/ \E val \in QueryInputs, type \in Fields : handleInput(val, type)
  \/ fetchSuggestions
  \/ \E r \in inflight, data \in SuggestionInputs : suggestionsArrive(r, data)
  \/ \E r \in inflight : suggestionsFail(r)
  \/ \E type \in Fields, k \in 1..2 : handleSelect(type, k)

SpecPlanner ==
  Init /\ [][NextPlanner]_vars

\* C17: for each field of the planner, the displayed suggestions are the
\* answer to the request sent last for that field; an answer to an earlier
\* request, or one that arrives after a suggestion was selected, is not
\* displayed.
C17_LatestSuggestionsWin ==
  \A type \in Fields :
    requests.shown[type] \in {0, requests.current[type]}

(***************************************************************************)
(* Properties of the viewport                                              *)
(***************************************************************************)
\* a step in which a handler ran
HandlerStep ==
  events' = events + 1

GpsOps ==
  {"GpsUpdateMount", "GpsUpdateLocate"}

\* a handler step in which a watch delivered a position
GpsStep ==
  HandlerStep /\ lastOp' \in GpsOps

\* C1: when MapUpdater runs with a non-empty route, it fits the camera to
\* the route only if the mode is neither Following nor Navigating.
C1_RouteFitOnlyWhenIdle ==
  instr.type = "fitRoute" => ~isFollowingUser /\ ~isNavigating

\* C2: after handleMapDrag, from any prior mode, isFollowingUser and
\* isNavigating are both false.
C2_DragLeavesIdle ==
  lastOp = "handleMapDrag" => ~isFollowingUser /\ ~isNavigating

\* C3: from mode Following, a drag-start followed immediately by a GPS
\* update leaves the mode Idle and recenters nothing on that update,
\* whichever watch delivers it.
C3_DragThenGpsStaysIdle ==
  [][(/\ lastOp = "handleMapDrag"
      /\ before.following
      /\ ~before.navigating
      /\ GpsStep)
     => (/\ ~isFollowingUser'
         /\ ~isNavigating'
         /\ instr'.type # "follow")]_vars

Dist2(a, b) ==
  (a.lat.v - b.lat.v) * (a.lat.v - b.lat.v)
    + (a.lng.v - b.lng.v) * (a.lng.v - b.lng.v)

\* the follow branch of MapUpdater is the one a GPS update reaches
Follows ==
  /\ manualLocation = null
  /\ isFollowingUser \/ (isNavigating /\ (routeData = null \/ routeData.coordinates = <<>>))

C5_ExplicitOnlyIfChanged ==
  [][(HandlerStep /\ instr'.type = "explicit")
     => (\/ Abs(lastAppliedCenter.lat.v - mapCenter'.lat.v) > 1
         \/ Abs(lastAppliedCenter.lng.v - mapCenter'.lng.v) > 1
         \/ lastAppliedZoom # Num(IF mapZoom' # 0 THEN mapZoom' ELSE camZoom))]_vars

\* the place at (0.000301, 0.0003) was selected right after the place at
\* (0.0003, 0.0003), 1e-6 degree away, had been applied at the same zoom:
\* the second request was not applied
C5_Witness ==
  /\ lastOp = "handlePlaceSelect"
  /\ mapCenter = Pt(301, 300)
  /\ lastAppliedCenter = Pt(300, 300)
  /\ lastAppliedZoom = Num(mapZoom)
  /\ routeData = null
  /\ ~isNavigating
  /\ instr.type = "none"

\* the render of the step carries a directive with an invalid coordinate:
\* a new explicit center, a user position that is followed, or a route that
\* is to be fitted and has no valid point
InvalidDirective ==
  \/ /\ mapCenter' # mapCenter
     /\ ~isValidCoord(mapCenter'.lat, mapCenter'.lng)
  \/ /\ GpsStep
     /\ GpsAccepted(before'.input)
     /\ manualLocation = null
     /\ isFollowingUser' \/ isNavigating'
     /\ ~isValidCoord(before'.input.lat, before'.input.lng)
  \/ /\ routeData' # routeData
     /\ routeData' # null
     /\ routeData'.coordinates # <<>>
     /\ ~isFollowingUser'
     /\ \A c \in Range(routeData'.coordinates) : ~isValidCoord(c.lat, c.lng)

\* C6: a directive with a NaN or non-finite coordinate causes no camera
\* instruction and no change to lastAppliedCenter or lastAppliedZoom, and
\* never throws (the mode is written by the handlers of App, not by
\* MapUpdater).
C6_InvalidDirectiveIsNoOp ==
  [][(HandlerStep /\ InvalidDirective)
     => (/\ instr'.type = "none"
         /\ lastAppliedCenter' = lastAppliedCenter
         /\ lastAppliedZoom' = lastAppliedZoom
         /\ ~crashed')]_vars

\* the coordinates of the places whose latitude and longitude are finite
FiniteCoords(ps) ==
  {c \in {ps[i].coordinates : i \in 1..Len(ps)} : isFinite(c.lat) /\ isFinite(c.lng)}

C8_LocateClearsOverride ==
  (lastOp = "handleManualLocate" /\ before.manual)
    => (/\ manualLocation = null
        /\ isFollowingUser
        /\ userLocation = gpsLocation)

\* the locate control was used while the start of a route was the manual
\* override and a GPS fix was known
C8_Witness ==
  /\ lastOp = "handleManualLocate"
  /\ before.manual
  /\ ~before.following
  /\ gpsLocation # null
  /\ routeData # null
  /\ manualLocation = null
  /\ isFollowingUser

\* C18: in Idle mode (isFollowingUser and isNavigating both false) a GPS
\* update alone causes no camera instruction, with or without a route.
C18_IdleGpsMovesNothing ==
  [][(GpsStep /\ ~isFollowingUser /\ ~isNavigating)
     => instr'.type = "none"]_vars

\* a watch delivered a position that was stored as the user's position, so
\* that userLocation is a new object and MapUpdater's effect ran
FixStep ==
  /\ GpsStep
  /\ GpsAccepted(before'.input)
  /\ manualLocation = null

\* what C19 lets the instruction depend on, the last-applied values aside
ListedInputs ==
  <<isFollowingUser, isNavigating, routeData, userLocation, mapCenter, mapZoom>>

FinitePoint(c) ==
  isFinite(c.lat) /\ isFinite(c.lng)

\* a step in which an App handler ran and the tree rendered (the control of
\* FitBoundsControl moves the camera by itself, outside MapUpdater)
RenderStep ==
  HandlerStep /\ lastOp' # "fitBounds"

\* a route is displayed and following is off
RouteShown ==
  /\ routeData # null
  /\ routeData.coordinates # <<>>
  /\ ~isFollowingUser

\* no point of the route has a NaN coordinate
RoutePointsAreNumbers ==
  \A i \in 1..Len(routeData.coordinates) :
    ~isNaN(routeData.coordinates[i].lat) /\ ~isNaN(routeData.coordinates[i].lng)

\* the user is tracked: navigating or following, at a finite position
Tracking ==
  /\ isNavigating \/ isFollowingUser
  /\ userLocation # null
  /\ FinitePoint(userLocation)

\* the requested center and zoom differ from the last-applied ones
Requested ==
  /\ FinitePoint(mapCenter')
  /\ \/ lastAppliedCenter = null
     \/ Abs(lastAppliedCenter.lat.v - mapCenter'.lat.v) > 1
     \/ Abs(lastAppliedCenter.lng.v - mapCenter'.lng.v) > 1
     \/ lastAppliedZoom # Num(mapZoom')

StoredCoordinates ==
  {gpsLocation, manualLocation, destinationLocation, mapCenter,
   planner.startCoords, planner.destCoords}
    \cup {places[i].coordinates : i \in 1..Len(places)}

\* C20: every stored coordinate (gpsLocation, manualLocation,
\* destinationLocation, mapCenter, the planner's start and destination
\* coordinates, each Place's coordinates) has a finite, non-NaN latitude and
\* longitude.
C20_StoredCoordinatesFinite ==
  \A c \in StoredCoordinates : c # null => FinitePoint(c)

\* C21: when the model call of handleSearch fails, the failure becomes a
\* message of the toast with appState = ERROR, and the places, the mode and
\* the requested center and zoom are what they were before the call
\* returned: nothing of the failed search is applied.
C21_FailedSearchAppliesNothing ==
  [][(HandlerStep /\ lastOp' = "handleSearchFailed")
     => (/\ appState' = "ERROR"
         /\ aiResponseText' # null
         /\ places' = places
         /\ selectedPlaceId' = selectedPlaceId
         /\ isFollowingUser' = isFollowingUser
         /\ isNavigating' = isNavigating
         /\ mapCenter' = mapCenter
         /\ mapZoom' = mapZoom
         /\ instr'.type = "none")]_vars

\* a search failed after an earlier one had listed places: they are kept
C21_Witness ==
  /\ lastOp = "handleSearchFailed"
  /\ appState = "ERROR"
  /\ aiResponseText # null
  /\ Len(places) > 0

\* C22: after every camera instruction MapUpdater applies (explicit center,
\* follow recenter, route fit), lastAppliedCenter and lastAppliedZoom are the
\* center and the zoom of that instruction.
C22_LastAppliedIsTheInstruction ==
  [][(RenderStep /\ instr'.type \in {"explicit", "follow", "fitRoute"})
     => (/\ lastAppliedCenter' # null
         /\ lastAppliedCenter'.lat = instr'.center.lat
         /\ lastAppliedCenter'.lng = instr'.center.lng
         /\ lastAppliedZoom' = Num(instr'.zoom))]_vars

\* C23: in Idle mode an explicit-center request with valid coordinates that
\* differs from the last-applied center or zoom (the first place of a search
\* at zoom 14, a selected place at zoom 16) is the camera instruction of that
\* update cycle, also while a route fitted earlier is displayed.
C23_ExplicitRequestBeatsShownRoute ==
  [][(/\ RenderStep
      /\ lastOp' \in {"handleSearchDone", "handlePlaceSelect"}
      /\ ~isFollowingUser'
      /\ ~isNavigating'
      /\ mapCenter' # mapCenter \/ mapZoom' # mapZoom
      /\ Requested)
     => (/\ instr'.type = "explicit"
         /\ instr'.center.lat = mapCenter'.lat
         /\ instr'.center.lng = mapCenter'.lng
         /\ instr'.zoom = mapZoom')]_vars

\* C24: after a search completed, the places are exactly the Places
\* extracted from its response (none when it held no tag): no Place of an
\* earlier search remains.
C24_PlacesAreThoseOfTheResponse ==
  [][(HandlerStep /\ lastOp' = "handleSearchDone")
     => (/\ appState' = "RESULTS"
         /\ SansId(places') = SansId(parseResponse(before'.input, 0, 1).places))]_vars

\* a search whose response held no tag completed while a place of the
\* earlier list was selected: the list is empty
C24_Witness ==
  /\ lastOp = "handleSearchDone"
  /\ before.input = <<"a">>
  /\ selectedPlaceId # null
  /\ places = <<>>

\* C25: after a map click pinned a destination (destinationLocation set, the
\* planner open), the planner's destination coordinates are the pinned
\* location.
C25_PinnedDestinationReachesPlanner ==
  lastOp = "handleMapClick"
    => (/\ isRoutePlannerOpen
        /\ destinationLocation # null
        /\ planner.destCoords = destinationLocation)

\* the route requests that ended in this step
EndedJourneys ==
  journeys.inflight \ journeys'.inflight

\* C26: after the planner was cancelled, the completion of a route request
\* that was in flight at that time sets neither routeData nor manualLocation
\* nor destinationLocation: routeData stays null until a request issued
\* after the cancel succeeds.
C26_CancelledRequestSetsNothing ==
  [][(/\ lastOp = "cancelRoutePlanner"
      /\ \E j \in EndedJourneys : ~j.live)
     => (/\ routeData' = routeData
         /\ manualLocation' = manualLocation
         /\ destinationLocation' = destinationLocation
         /\ instr'.type = "none")]_vars

\* C27: under any interleaving of place selection and search start and
\* completion, selectedPlaceId is null or the id of a Place of the list.
C27_SelectionIsListed ==
  selectedPlaceId # null
    => \E i \in 1..Len(places) : places[i].id = selectedPlaceId

\* the geolocation watches started and not cleared: the one of the mount
\* effect (cleared at unmount) and those of handleManualLocate
ActiveWatches ==
  1 + locateWatches

\* C28: at most one geolocation watch started by the application is active:
\* the locate control adds no uncleared watch to the one started on mount.
C28_AtMostOneWatch ==
  ActiveWatches <= 1

\* the route requests in flight of the mounted planner
LiveJourneys ==
  {j \in journeys.inflight : j.live}

\* a route request is in flight only with both coordinates, and the mounted
\* planner has at most one, exactly while isLoading
JourneysInOrder ==
  /\ \A j \in journeys.inflight : j.start # null /\ j.dest # null
  /\ Cardinality(LiveJourneys) <= 1
  /\ planner.isLoading <=> LiveJourneys # {}

\* the step is the selection of a suggestion of the field
Selects(type) ==
  \E k \in 1..Len(planner[SuggestionsOf(type)]) :
    /\ planner'[QueryOf(type)] = planner[SuggestionsOf(type)][k].display_name
    /\ planner'[SuggestionsOf(type)] = <<>>

\* the field was just edited (its debounce timer is pending) and has no
\* coordinates; the planner stays mounted and the field gets coordinates
SetAfterEdit(type) ==
  /\ isRoutePlannerOpen
  /\ isRoutePlannerOpen'
  /\ planner.debounceTimer # null
  /\ planner.debounceTimer.type = type
  /\ planner[CoordsOf(type)] = null
  /\ planner'[CoordsOf(type)] # null

\* C30: a route request is issued only with both the start and the
\* destination coordinates set; editing a field's text leaves the field
\* without coordinates until a suggestion is selected; and a planner has at
\* most one route request in flight (isLoading is false again after every
\* request).
C30_RouteRequestDiscipline ==
  /\ []JourneysInOrder
  /\ [][\A type \in Fields : SetAfterEdit(type) => Selects(type)]_vars

(***************************************************************************)
(* The extraction protocol on its own: sendMessageToGemini hands the text  *)
(* of a response to parseResponse                                          *)
(***************************************************************************)
\* pieces concatenated into one response text
MaxPieces ==
  3

\* numeric fields of a tag: 0, +-0.0001, 0.000101, +-0.0002, a word,
\* Infinity, decimal commas (0,0002  40,71  -74,00), surrounding blanks
NumTexts ==
  {<<"0">>,
   <<"0", ".", "0", "0", "0", "1">>,
   <<"-", "0", ".", "0", "0", "0", "1">>,
   <<"0", ".", "0", "0", "0", "1", "0", "1">>,
   <<"0", ".", "0", "0", "0", "2">>,
   <<"-", "0", ".", "0", "0", "0", "2">>,
   <<"x">>,
   <<"I">>,
   <<"0", ",", "0", "0", "0", "2">>,
   <<"4", "0", ",", "7", "1">>,
   <<"-", "7", "4", ",", "0", "0">>,
   <<" ", "1", ".", "5", " ">>}

\* one tag, over every pair of numeric fields
GridTexts ==
  {TagText(<<"n">>, la, ln, <<"x">>) : la \in NumTexts, ln \in NumTexts}

\* plain text, a dangling "{{", a tag just outside the rejection radius, the
\* placeholder tag, a tag on the radius, the tail of a tag, a tag of three
\* fields, a tag of five fields, a tag whose address holds one "}", a tag
\* whose latitude is a word
Pieces ==
  {<<"a">>,
   <<"{", "{">>,
   TagText(<<"R">>, <<"0", ".", "0", "0", "0", "2">>,
           <<"0", ".", "0", "0", "0", "2">>, <<"s">>),
   TagText(<<"G">>, <<"0">>, <<"0">>, <<"n">>),
   TagText(<<"E">>, <<"0", ".", "0", "0", "0", "1">>,
           <<"-", "0", ".", "0", "0", "0", "1">>, <<"e">>),
   <<"D", "b", "|", "1", "|", "2", "|", "y", "}", "}">>,
   <<"{", "{", "D", "t", "|", "1", "|", "2", "}", "}">>,
   TagText(<<"F">>, <<"1">>, <<"2">>, <<"p", "|", "q">>),
   TagText(<<"C">>, <<"1">>, <<"2">>, <<"u", "}", "v">>),
   TagText(<<"N">>, <<"x">>, <<"3">>, <<"w">>)}

RECURSIVE Flatten(_)
Flatten(ps) ==
  IF Len(ps) = 0 THEN <<>> ELSE Head(ps) \o Flatten(Tail(ps))

PieceTexts ==
  {Flatten(ps) : ps \in UNION {[1..n -> Pieces] : n \in 0..MaxPieces}}

ParseTexts ==
  GridTexts \cup PieceTexts

\* calls of parseResponse in a behaviour
MaxCalls ==
  2

\* the texts of the calls after the first: the text of the call before, and
\* the model responses of a search
AgainTexts ==
  {rawText} \cup SearchTexts

\* a call of parseResponse on the text of a response (events counts them)
parseCall(text, rnd) ==
  /\ events < MaxCalls
  /\ rawText' = text
  /\ parseResult' = parseResponse(text, lastIndex, rnd)
  /\ lastIndex' = lastIndexAfter(text, lastIndex)
  /\ lastOp' = "parseResponse"
  /\ events' = events + 1
  /\ UNCHANGED <<appVars, mapVars, crashed, instr, before, plannerVars>>

NextParse ==
  \E text \in IF parseResult = null THEN ParseTexts ELSE AgainTexts,
     rnd \in RandomInputs :
    parseCall(text, rnd)

SpecParse ==
  Init /\ [][NextParse]_vars

(***************************************************************************)
(* Properties of the extraction protocol                                   *)
(***************************************************************************)
\* every {{DATA: of the text opens a tag the regex matches
AllTagsWellFormed(t) ==
  \A i \in 1..Len(t) : OpenerAt(t, i) => MatchAt(t, i).start # 0

\* the text holds a span the regex matches
HasSentinel(t) ==
  Exec(t, 0).start # 0

\* C9: for an input whose tags are all well-formed four-field tags, the
\* display text parseResponse returns holds no occurrence of the sentinel
\* pattern, whether the tags were accepted or rejected.
C9_CleanTextHasNoSentinel ==
  (parseResult # null /\ AllTagsWellFormed(rawText))
    => ~HasSentinel(parseResult.cleanText)

FiniteTag(m) ==
  isFinite(ParseLat(m)) /\ isFinite(ParseLng(m))

OutsideRadius(m) ==
  Abs(ParseLat(m).v) > 100 \/ Abs(ParseLng(m).v) > 100

\* C10: a matched tag with finite coordinates yields no Place exactly when
\* |lat| <= 0.0001 and |lng| <= 0.0001, and exactly one Place otherwise: the
\* Places of a call are, in order, the coordinates of the finite tags with a
\* coordinate farther than 0.0001 from zero.
C10_RejectionRadius ==
  parseResult # null =>
    LET ms   == ExecLoop(rawText, 0)
        kept == SelectSeq(ms, LAMBDA m : FiniteTag(m) /\ OutsideRadius(m))
    IN /\ Len(parseResult.places) = Len(kept)
       /\ \A i \in 1..Len(kept) :
            parseResult.places[i].coordinates
              = Coord(ParseLat(kept[i]), ParseLng(kept[i]))

\* a response with a tag on the radius (0.0001, -0.0001) and a tag just
\* outside it (0.0002, 0.0002) gave exactly one Place, at (0.0002, 0.0002)
C10_Witness ==
  /\ parseResult # null
  /\ \E m \in Range(ExecLoop(rawText, 0)) :
       FiniteTag(m) /\ ~OutsideRadius(m) /\ ParseLat(m) = Num(100)
  /\ \E m \in Range(ExecLoop(rawText, 0)) :
       FiniteTag(m) /\ ParseLat(m) = Num(200) /\ ParseLng(m) = Num(200)
  /\ Len(parseResult.places) = 1
  /\ parseResult.places[1].coordinates = Pt(200, 200)

\* the indices of the text that lie in the span of a match
Matched(t) ==
  LET ms == ExecLoop(t, 0)
  IN UNION {ms[i].start..ms[i].end : i \in 1..Len(ms)}

\* C11: a matched tag whose latitude or longitude does not parse to a finite
\* number yields no Place (every Place has finite coordinates, and there are
\* no more Places than tags with finite coordinates), and its span, like
\* that of every match, is gone from the display text.
C11_UnparsableTagDropped ==
  parseResult # null =>
    LET ms  == ExecLoop(rawText, 0)
        bad == {i \in 1..Len(ms) : ~FiniteTag(ms[i])}
    IN /\ \A p \in Range(parseResult.places) :
            isFinite(p.coordinates.lat) /\ isFinite(p.coordinates.lng)
       /\ Len(parseResult.places) <= Len(ms) - Cardinality(bad)
       /\ Len(parseResult.cleanText) = Len(rawText) - Cardinality(Matched(rawText))

\* a response "a", a tag with latitude x, a tag at (0.0002, 0.0002): one
\* Place, and the display text is "a"
C11_Witness ==
  /\ parseResult # null
  /\ Len(ExecLoop(rawText, 0)) = 2
  /\ \E m \in Range(ExecLoop(rawText, 0)) : isNaN(ParseLat(m))
  /\ Len(parseResult.places) = 1
  /\ parseResult.places[1].name = <<"R">>
  /\ parseResult.cleanText = <<"a">>

\* C12: the Places of a call are one per accepted match, in the order of
\* the matches in the text: the i-th Place carries the name and the address
\* of the i-th accepted match.
C12_OnePlacePerAcceptedTagInOrder ==
  parseResult # null =>
    LET acc == SelectSeq(ExecLoop(rawText, 0),
                         LAMBDA m : FiniteTag(m) /\ OutsideRadius(m))
    IN /\ Len(parseResult.places) = Len(acc)
       /\ \A i \in 1..Len(acc) :
            /\ parseResult.places[i].name = trim(acc[i].name)
            /\ parseResult.places[i].address = trim(acc[i].address)

\* the text held the tag F before the tag R, and the Places are F, R
C12_Witness ==
  /\ parseResult # null
  /\ Len(parseResult.places) = 2
  /\ parseResult.places[1].name = <<"F">>
  /\ parseResult.places[2].name = <<"R">>
  /\ ExecLoop(rawText, 0)[1].name = <<"F">>

\* least index j >= i at which the two-character closer starts, or 0
FirstCloser(t, i) ==
  LET S == {j \in i..(Len(t) - 1) : t[j] = "}" /\ t[j + 1] = "}"}
  IN IF S = {} THEN 0 ELSE MinOf(S)

\* the span at an opener: name, lat, lng up to the next three pipes, and
\* the address up to the first closer after the third pipe
SpanAt(t, i) ==
  LET p1 == FirstIdx(t, i + 3, "|")
      p2 == IF p1 = 0 THEN 0 ELSE FirstIdx(t, p1 + 1, "|")
      p3 == IF p2 = 0 THEN 0 ELSE FirstIdx(t, p2 + 1, "|")
      e  == IF p3 = 0 THEN 0 ELSE FirstCloser(t, p3 + 1)
  IN IF e = 0 THEN [start |-> 0]
     ELSE [start |-> i, end |-> e + 1, address |-> SubSeq(t, p3 + 1, e - 1)]

\* C13, as stated: every span {{DATA:n|a|b|addr}} with no pipe in n, a, b
\* and no }} in addr is matched as one tag whose address is addr.
C13_AddressEndsAtFirstCloser ==
  parseResult # null =>
    \A i \in 1..Len(rawText) :
      (OpenerAt(rawText, i) /\ SpanAt(rawText, i).start # 0)
        => LET m == Exec(rawText, i - 1)
           IN /\ m.start = i
              /\ m.end = SpanAt(rawText, i).end
              /\ m.address = SpanAt(rawText, i).address

\* the number of pipes of the text between the indices a and b
Pipes(t, a, b) ==
  Cardinality({j \in a..b : t[j] = "|"})

\* C14: a span from {{DATA: to the next }} that holds fewer or more than
\* three pipes (so not four fields) is not treated as a tag: no match starts
\* at its opener, and the span is in the display text.
C14_WrongFieldCountIgnored ==
  parseResult # null =>
    \A i \in 1..Len(rawText) :
      (/\ OpenerAt(rawText, i)
       /\ FirstCloser(rawText, i + 3) # 0
       /\ Pipes(rawText, i + 3, FirstCloser(rawText, i + 3)) # 3)
      => (/\ \A m \in Range(ExecLoop(rawText, 0)) : m.start # i
          /\ \E k \in 0..Len(parseResult.cleanText) :
               LET n == FirstCloser(rawText, i + 3) + 1 - i + 1
               IN /\ k + n <= Len(parseResult.cleanText)
                  /\ SubSeq(parseResult.cleanText, k + 1, k + n)
                       = SubSeq(rawText, i, i + n - 1))

\* C15: the display text is the text without the characters of the matched
\* spans, every other character kept in order; a text without a match is
\* returned unchanged, with no Place.
C15_OnlyMatchedSpansDeleted ==
  parseResult # null =>
    LET idx  == [i \in 1..Len(rawText) |-> i]
        kept == SelectSeq(idx, LAMBDA i : i \notin Matched(rawText))
    IN /\ parseResult.cleanText = [k \in 1..Len(kept) |-> rawText[kept[k]]]
       /\ Matched(rawText) = {} =>
            /\ parseResult.cleanText = rawText
            /\ parseResult.places = <<>>

\* two tags around plain text: the display text is the plain text
C15_Witness ==
  /\ parseResult # null
  /\ Len(ExecLoop(rawText, 0)) = 2
  /\ rawText[Len(rawText)] = "}"
  /\ rawText[1] = "{"
  /\ parseResult.cleanText = <<"a">>

\* a field with every decimal comma written as a point
Dotted(s) ==
  [j \in 1..Len(s) |-> IF s[j] = "," THEN "." ELSE s[j]]

DottedLat(m) ==
  parseFloat(Dotted(trim(m.latStr)))

DottedLng(m) ==
  parseFloat(Dotted(trim(m.lngStr)))

\* C16: a numeric field written with a decimal comma gives the coordinate
\* the same field gives written with a decimal point: the Places are those
\* of the text with the commas of the numeric fields written as points.
C16_DecimalComma ==
  parseResult # null =>
    LET kept == SelectSeq(ExecLoop(rawText, 0), LAMBDA m :
                  /\ isFinite(DottedLat(m))
                  /\ isFinite(DottedLng(m))
                  /\ (Abs(DottedLat(m).v) > 100 \/ Abs(DottedLng(m).v) > 100))
    IN /\ Len(parseResult.places) = Len(kept)
       /\ \A i \in 1..Len(kept) :
            parseResult.places[i].coordinates
              = Coord(DottedLat(kept[i]), DottedLng(kept[i]))

\* the tag with the fields 40,71 and -74,00 gave the Place (40.71, -74.00)
C16_Witness ==
  /\ parseResult # null
  /\ Len(parseResult.places) = 1
  /\ ExecLoop(rawText, 0)[1].latStr = <<"4", "0", ",", "7", "1">>
  /\ ExecLoop(rawText, 0)[1].lngStr = <<"-", "7", "4", ",", "0", "0">>
  /\ parseResult.places[1].coordinates = Pt(40710000, -74000000)

\* C29: parseResponse keeps no state between calls: whatever calls came
\* before, the display text and the places of a call (names, coordinates,
\* addresses, order; the generated ids aside) are those of a call on the same
\* text with a fresh regex, so two calls on one text give the same result.
C29_CallsShareNoState ==
  parseResult # null
    => (/\ lastIndex = 0
        /\ parseResult.cleanText = RemoveSpans(rawText, ExecLoop(rawText, 0), 1)
        /\ SansId(parseResult.places)
             = SansId(PushPlaces(ExecLoop(rawText, 0), 1, 1)))

\* a second call, on a text with tags, after a first call on a text with tags
C29_Witness ==
  /\ events = 2
  /\ rawText \in SearchTexts
  /\ Len(parseResult.places) = 2
  /\ parseResult.cleanText = <<"a">>

=============================================================================
